---- MODULE Spec2Model ----
(***************************************************************************)
(* Review-Master: the campaign runner (run_campaign.py), the messaging     *)
(* provider (messaging_provider.py), the browser session client            *)
(* (whatsapp_client.py), the sentiment classifier (sentiment_service.py)   *)
(* and the persistence calls the runner makes (database.py).               *)
(*                                                                         *)
(* A text is a record [src, pre, len]: the string it is a prefix of, the   *)
(* length of a literal prefix put in front of it, and its length, so that  *)
(* slicing t[:n] is the prefix of length min(len, n).                      *)
(***************************************************************************)
EXTENDS Integers, Sequences, FiniteSets, TLC

VARIABLES
    pc,         \* position of run_campaign
    idx,        \* index of the customer of the for loop in pending (0 before the loop)
    pending,    \* the list fetched by get_pending_customers at run start
    db,         \* the customers table: id -> row
    apiKey,     \* settings.llm.api_key is set
    client,     \* SeleniumProvider._client is not None
    connected,  \* SeleniumProvider._connected
    browser,    \* the number of live browser sessions (drivers not yet quit)
    blocked,    \* a block indicator is in the page source
    openChat,   \* the conversation open on the chat surface (0: none)
    dom,        \* the messages of the open conversation, oldest first
    baseline,   \* wait_for_reply: baseline_messages
    polls,      \* wait_for_reply: polls done (time elapsed / poll_interval)
    found,      \* wait_for_reply: (el, is_incoming, msg_id) of the element it returns from
    msg,        \* run_campaign: msg / reply
    sentiment,  \* run_campaign: sentiment
    exc,        \* the exception caught by the per-customer handler
    outbox,     \* every message submitted to the chat surface, in order
    hist,       \* per customer: what the run did for it (history)
    intrAt,     \* index of the customer during which an operator interrupt was raised (0: none)
    blockAt,    \* index of the customer during which open_chat raised Blocked (0: none)
    input,      \* a function called on its own: its arguments
    output      \* a function called on its own: what it returned

vars == <<pc, idx, pending, db, apiKey, client, connected, browser, blocked,
          openChat, dom, baseline, polls, found, msg, sentiment, exc, outbox,
          hist,
          intrAt, blockAt, input, output>>

\* no function is called on its own
NoCall == <<>>
Pure == <<input, output>>

----------------------------------------------------------------------------
(* Bounds *)

NumCustomers == 2
MaxPolls == 2
MaxMsgs == 2

(* Program constants *)

GoogleLinkLen == 155
ThankYouLen == 96
LinkLen == 65
FollowTrunc == 100
DbTrunc == 200
ErrPrefixLen == 7
ErrTrunc == 100
BlockedMsgLen == 26
RequestLen == 127
DefaultProductLen == 20

Customers == 1..NumCustomers

Min(a, b) == IF a < b THEN a ELSE b

----------------------------------------------------------------------------
(* Texts *)

Text(s, n) == [src |-> s, pre |-> 0, len |-> n]

EmptyText == Text("", 0)

\* Python t[:n]
Slice(t, n) == [t EXCEPT !.len = Min(t.len, n)]

\* f"Error: {error}"
ErrorPrefixed(t) == [src |-> t.src, pre |-> ErrPrefixLen, len |-> ErrPrefixLen + t.len]

\* GOOGLE_LINK_MSG.format(name=customer.name, link=google_link)
GOOGLE_LINK_MSG(c) == Text("GOOGLE_LINK_MSG", GoogleLinkLen + c.nameLen + LinkLen)

\* THANK_YOU_MSG.format(name=customer.name)
THANK_YOU_MSG(c) == Text("THANK_YOU_MSG", ThankYouLen + c.nameLen)

\* REVIEW_REQUEST.format(name=customer.name, product=product_name)
REVIEW_REQUEST(c) == Text("REVIEW_REQUEST", RequestLen + c.nameLen + DefaultProductLen)

----------------------------------------------------------------------------
(* Persistence: database.py *)

NewRow(n, hr, st) ==
    [name |-> n, status |-> st, has_review |-> hr, sentiment |-> "",
     last_message |-> EmptyText]

\* variant: the UPDATE without its WHERE clause
update_customer_every_row(d, id, updates) ==
    [c \in DOMAIN d |->
        [f \in DOMAIN d[c] |->
            IF f \in DOMAIN updates THEN updates[f] ELSE d[c][f]]]

\* UPDATE customers SET ... WHERE id = ?   (fields: a function field -> value)
update_customer(d, id, updates) ==
    [c \in DOMAIN d |->
        IF c = id
        THEN [f \in DOMAIN d[c] |->
                 IF f \in DOMAIN updates THEN updates[f] ELSE d[c][f]]
        ELSE d[c]]

\* variant: the label is not stored
mark_done_unlabelled(d, id, sent, last) ==
    update_customer(d, id,
        [status |-> "done", has_review |-> TRUE,
         last_message |-> Slice(last, DbTrunc)])

mark_done(d, id, sent, last) ==
    update_customer(d, id,
        [status |-> "done", has_review |-> TRUE, sentiment |-> sent,
         last_message |-> Slice(last, DbTrunc)])

\* variant: the write is lost
mark_no_reply_lost(d, id) == d

mark_no_reply(d, id) ==
    update_customer(d, id, [status |-> "no_reply"])

\* variant: the reason is not stored
mark_error_no_reason(d, id, error) ==
    update_customer(d, id, [status |-> "error"])

\* variant: a status outside the four
mark_error_failed(d, id, error) ==
    update_customer(d, id,
        [status |-> "failed",
         last_message |-> Slice(ErrorPrefixed(error), DbTrunc)])

\* variant: the label of the text just classified is stored with the error
mark_error_labelled(d, id, error) ==
    update_customer(d, id,
        [status |-> "error", sentiment |-> sentiment,
         last_message |-> Slice(ErrorPrefixed(error), DbTrunc)])

mark_error(d, id, error) ==
    update_customer(d, id,
        [status |-> "error",
         last_message |-> Slice(ErrorPrefixed(error), DbTrunc)])

\* reset_customer
reset_customer(d, id) ==
    update_customer(d, id,
        [status |-> "pending", has_review |-> FALSE, sentiment |-> "",
         last_message |-> EmptyText])

\* SELECT * FROM customers WHERE status = 'pending' ORDER BY id
RECURSIVE PendingFrom(_, _)
PendingFrom(d, c) ==
    IF c > NumCustomers THEN <<>>
    ELSE (IF d[c].status = "pending"
          THEN <<[id |-> c, has_review |-> d[c].has_review, nameLen |-> d[c].name]>>
          ELSE <<>>) \o PendingFrom(d, c + 1)

get_pending_customers(d) == PendingFrom(d, 1)

----------------------------------------------------------------------------
(* Incoming texts and classifier payloads are tuples of one-character      *)
(* strings, so that strip, lower, split and substring search are computed. *)

UpperChars == <<"A","B","C","D","E","F","G","H","I","J","K","L","M","N","O","P","Q","R","S","T","U","V","W","X","Y","Z">>
LowerChars == <<"a","b","c","d","e","f","g","h","i","j","k","l","m","n","o","p","q","r","s","t","u","v","w","x","y","z">>

RECURSIVE IndexIn(_, _, _)
IndexIn(ch, s, i) ==
    IF i > Len(s) THEN 0 ELSE IF s[i] = ch THEN i ELSE IndexIn(ch, s, i + 1)

LowerCh(ch) == LET i == IndexIn(ch, UpperChars, 1) IN IF i = 0 THEN ch ELSE LowerChars[i]
UpperCh(ch) == LET i == IndexIn(ch, LowerChars, 1) IN IF i = 0 THEN ch ELSE UpperChars[i]

\* str.lower()
Lower(s) == [i \in 1..Len(s) |-> LowerCh(s[i])]

\* str.capitalize()
Capitalize(s) == [i \in 1..Len(s) |-> IF i = 1 THEN UpperCh(s[i]) ELSE LowerCh(s[i])]

IsSpace(ch) == ch = " "

RECURSIVE LStrip(_)
LStrip(s) == IF s # <<>> /\ IsSpace(Head(s)) THEN LStrip(Tail(s)) ELSE s

RECURSIVE RStrip(_)
RStrip(s) ==
    IF s # <<>> /\ IsSpace(s[Len(s)]) THEN RStrip(SubSeq(s, 1, Len(s) - 1)) ELSE s

\* str.strip()
Strip(s) == RStrip(LStrip(s))

\* content.split()[0], for content that is not all whitespace
RECURSIVE UntilSpace(_)
UntilSpace(s) ==
    IF s = <<>> \/ IsSpace(Head(s)) THEN <<>> ELSE <<Head(s)>> \o UntilSpace(Tail(s))

FirstWord(s) == UntilSpace(LStrip(s))

\* kw in text
Contains(text, kw) ==
    \E i \in 1..(Len(text) - Len(kw) + 1) : SubSeq(text, i, i + Len(kw) - 1) = kw

NoneV == <<"<None>">>

POSITIVE_KEYWORDS ==
    << <<"g","r","e","a","t">>,
       <<"g","o","o","d">>,
       <<"l","o","v","e">>,
       <<"l","o","v","e","d">>,
       <<"e","x","c","e","l","l","e","n","t">>,
       <<"a","w","e","s","o","m","e">>,
       <<"a","m","a","z","i","n","g">>,
       <<"h","a","p","p","y">>,
       <<"s","a","t","i","s","f","i","e","d">>,
       <<"w","o","n","d","e","r","f","u","l">>,
       <<"f","a","n","t","a","s","t","i","c">>,
       <<"p","e","r","f","e","c","t">>,
       <<"b","e","s","t">>,
       <<"t","h","a","n","k">>,
       <<"t","h","a","n","k","s">>,
       <<"a","p","p","r","e","c","i","a","t","e">> >>

NEGATIVE_KEYWORDS ==
    << <<"b","a","d">>,
       <<"t","e","r","r","i","b","l","e">>,
       <<"d","i","s","a","p","p","o","i","n","t">>,
       <<"d","i","s","a","p","p","o","i","n","t","e","d">>,
       <<"p","o","o","r">>,
       <<"h","a","t","e">>,
       <<"u","n","h","a","p","p","y">>,
       <<"p","r","o","b","l","e","m">>,
       <<"i","s","s","u","e">>,
       <<"w","o","r","s","t">>,
       <<"a","w","f","u","l">>,
       <<"h","o","r","r","i","b","l","e">>,
       <<"n","e","v","e","r">>,
       <<"w","a","s","t","e">>,
       <<"r","e","f","u","n","d">>,
       <<"a","n","g","r","y">>,
       <<"u","p","s","e","t">> >>

S_Positive == <<"P","o","s","i","t","i","v","e">>
S_Neutral == <<"N","e","u","t","r","a","l">>
S_Negative == <<"N","e","g","a","t","i","v","e">>

\* variant: the keywords are matched case-sensitively
classify_with_heuristics_cased(text) ==
    LET has_positive == \E k \in 1..Len(POSITIVE_KEYWORDS) : Contains(text, POSITIVE_KEYWORDS[k])
        has_negative == \E k \in 1..Len(NEGATIVE_KEYWORDS) : Contains(text, NEGATIVE_KEYWORDS[k])
    IN  IF has_positive /\ ~has_negative THEN "Positive"
        ELSE IF has_negative /\ ~has_positive THEN "Negative"
        ELSE "Neutral"

\* SentimentService._classify_with_heuristics
classify_with_heuristics(text) ==
    LET lower_text == Lower(text)
        has_positive == \E k \in 1..Len(POSITIVE_KEYWORDS) : Contains(lower_text, POSITIVE_KEYWORDS[k])
        has_negative == \E k \in 1..Len(NEGATIVE_KEYWORDS) : Contains(lower_text, NEGATIVE_KEYWORDS[k])
    IN  IF has_positive /\ ~has_negative THEN "Positive"
        ELSE IF has_negative /\ ~has_positive THEN "Negative"
        ELSE "Neutral"

\* variant: an unrecognized label is no label
parse_sentiment_label_strict(content) ==
    IF content = <<>> THEN ""
    ELSE LET first_word == Capitalize(Strip(FirstWord(content)))
         IN  IF first_word = S_Positive THEN "Positive"
             ELSE IF first_word = S_Neutral THEN "Neutral"
             ELSE IF first_word = S_Negative THEN "Negative"
             ELSE ""

\* SentimentService._parse_sentiment_label; "" stands for None
parse_sentiment_label(content) ==
    IF content = <<>> THEN ""
    ELSE LET first_word == Capitalize(Strip(FirstWord(content)))
         IN  IF first_word = S_Positive THEN "Positive"
             ELSE IF first_word = S_Neutral THEN "Neutral"
             ELSE IF first_word = S_Negative THEN "Negative"
             ELSE "Neutral"

\* SentimentService._classify_with_llm; remote is the outcome of the request:
\* [ok |-> FALSE] for a timeout, a network or HTTP error or a malformed
\* payload, [ok |-> TRUE, content |-> ...] for a payload whose
\* choices[0].message.content is content; "" stands for None
classify_with_llm(text, remote) ==
    IF ~remote.ok THEN "" ELSE parse_sentiment_label(Strip(remote.content))

\* variant: three characters are short too
IsShort_le3(text) == text = <<>> \/ Len(Strip(text)) <= 3

\* classify lines 111-112: not text or len(text.strip()) < 3
IsShort(text) == text = <<>> \/ Len(Strip(text)) < 3

\* classify lines 116-117: the request is made
remote_called(text, key) == ~IsShort(text) /\ key

\* variant: without the heuristic fallback
classify_no_fallback(text, key, remote) ==
    IF IsShort(text) THEN "Neutral"
    ELSE IF key THEN classify_with_llm(text, remote) ELSE classify_with_heuristics(text)

\* variant: a failed request gives Neutral
classify_failure_neutral(text, key, remote) ==
    IF IsShort(text) THEN "Neutral"
    ELSE LET result == IF key THEN classify_with_llm(text, remote) ELSE ""
         IN  IF result # "" THEN result
             ELSE IF key THEN "Neutral" ELSE classify_with_heuristics(text)

\* SentimentService.classify; the value of the Sentiment returned
classify(text, key, remote) ==
    IF IsShort(text) THEN "Neutral"
    ELSE LET result == IF key THEN classify_with_llm(text, remote) ELSE ""
         IN  IF result # "" THEN result ELSE classify_with_heuristics(text)

\* The payloads the remote classification call is given to return
RemotePayloads ==
    { [ok |-> FALSE, content |-> <<>>],
      [ok |-> TRUE, content |-> <<>>],
      [ok |-> TRUE, content |-> <<"p","o","s","i","t","i","v","e">>],
      [ok |-> TRUE, content |-> <<" ","N","E","G","A","T","I","V","E",".">>],
      [ok |-> TRUE, content |-> <<"N","e","u","t","r","a","l">>],
      [ok |-> TRUE, content |-> <<"S","u","r","e","!"," ","P","o","s","i","t","i","v","e">>] }

\* the outcomes of the remote call of one classify: no call is made without
\* a key
RemoteOutcomes(key) ==
    IF key THEN RemotePayloads ELSE { [ok |-> FALSE, content |-> <<>>] }

\* The texts customers are given to write
T_ok == <<"o","k">>
T_loved == <<"L","o","v","e","d"," ","i","t",","," ","t","h","a","n","k","s","!">>
T_terrible == <<"T","e","r","r","i","b","l","e",","," ","I"," ","w","a","n","t"," ","a"," ","r","e","f","u","n","d">>
T_fine == <<"I","t"," ","w","a","s"," ","f","i","n","e">>
ReplyTexts == {T_ok, T_loved, T_terrible}

----------------------------------------------------------------------------
(* The chat surface.  A message of the open conversation is a record       *)
(* [author, text, stamp]: who wrote it ("cust" or "self"), its visible     *)
(* text (<<>> for a message without text) and the minute shown with it.    *)
(* Messages with text carry the data-pre-plain-text attribute; every       *)
(* message is a row with a data-id and a bubble in the conversation pane.  *)

D_request == <<"H","i",","," ","w","e"," ","h","o","p","e"," ","y","o","u","'","r","e"," ","s","a","t","i","s","f","i","e","d">>
D_link == <<"T","h","a","n","k"," ","y","o","u"," ","s","o"," ","m","u","c","h",","," ","w","e"," ","a","p","p","r","e","c","i","a","t","e"," ","i","t">>
D_thanks == <<"T","h","a","n","k"," ","y","o","u"," ","f","o","r"," ","y","o","u","r"," ","f","e","e","d","b","a","c","k">>

\* what the surface shows of a submitted text
Shown(t) ==
    IF t.src = "REVIEW_REQUEST" THEN D_request
    ELSE IF t.src = "GOOGLE_LINK_MSG" THEN D_link
    ELSE D_thanks

Stamps == {1, 2}

LastStamp(d) == IF d = <<>> THEN 1 ELSE d[Len(d)].stamp

\* the surface keeps the last MaxMsgs messages in the page
Push(d, m) ==
    LET all == Append(d, m)
    IN  IF Len(all) > MaxMsgs THEN SubSeq(all, Len(all) - MaxMsgs + 1, Len(all)) ELSE all

\* the conversations open_chat is given to find: empty, or one old message
InitialChats == { <<>>, <<[author |-> "cust", text |-> T_loved, stamp |-> 1]>> }

HasPre(m) == m.text # <<>>

S_You == <<"Y","o","u">>

\* the data-pre-plain-text attribute of a message with text: the minute
\* and the sender's name as the page shows it, "You" for the account's
\* own messages
PreText(author, name, stamp) ==
    <<"[", IF stamp = 1 THEN "1" ELSE "2", "]", " ">>
    \o (IF author = "self" THEN S_You ELSE name) \o <<":", " ">>

\* is_incoming = 'You' not in pre_text and '] You:' not in pre_text
is_incoming(pre_text) ==
    ~Contains(pre_text, S_You) /\ ~Contains(pre_text, <<"]", " ">> \o S_You \o <<":">>)

\* 'You' in pre_text, in the conversations of the campaign: no customer's
\* name holds "You"
PreHasYou(m) == m.author = "self"

\* whatsapp_client.py, _get_message_elements: the three strategies.  An
\* element is [el, inc, id]: the message it shows, is_incoming, msg_id.
RECURSIVE Strategy1(_, _)
Strategy1(d, i) ==
    IF i > Len(d) THEN <<>>
    ELSE (IF HasPre(d[i])
          THEN <<[el |-> i, inc |-> ~PreHasYou(d[i]),
                  id |-> <<"hash", d[i].stamp, IF d[i].author = "self" THEN 1 ELSE 0>>]>>
          ELSE <<>>) \o Strategy1(d, i + 1)

RECURSIVE Rows(_, _, _)
Rows(d, i, who) ==
    IF i > Len(d) THEN <<>>
    ELSE (IF d[i].author = who
          THEN <<[el |-> i, inc |-> who = "cust", id |-> <<"id", i, 0>>]>>
          ELSE <<>>) \o Rows(d, i + 1, who)

Strategy2(d) == Rows(d, 1, "cust") \o Rows(d, 1, "self")

Strategy3(d) ==
    [i \in 1..Len(d) |-> [el |-> i, inc |-> d[i].author = "cust", id |-> <<"idx", i - 1, 0>>]]

\* the elements strategy k finds in the page
StrategyElements(d, k) ==
    IF k = 1 THEN Strategy1(d, 1) ELSE IF k = 2 THEN Strategy2(d) ELSE Strategy3(d)

\* fault[k]: the number of elements strategy k has appended when one of its
\* driver calls raises something other than a stale element; 0: its
\* find_elements raises; a call it never makes raises nothing
FaultPoints == 0..(MaxMsgs + 1)

Faults == [1..3 -> FaultPoints]

\* every find_elements raises
AllFail == [k \in 1..3 |-> 0]

\* strategy k leaves its try block by the "except Exception"
StrategyRaises(d, fault, k) ==
    \/ fault[k] = 0
    \/ fault[k] < Len(StrategyElements(d, k))
    \/ k = 2 /\ fault[k] = Len(Rows(d, 1, "cust"))

\* what strategy k appends to messages
Appended(d, fault, k) ==
    IF StrategyRaises(d, fault, k)
    THEN SubSeq(StrategyElements(d, k), 1, fault[k])
    ELSE StrategyElements(d, k)

\* messages is one list for the three strategies: what a strategy appended
\* before it raised is still in it when the next strategy runs
get_message_elements(d, fault) ==
    LET m1 == Appended(d, fault, 1)
        m2 == m1 \o Appended(d, fault, 2)
        m3 == m2 \o Appended(d, fault, 3)
    IN  IF ~StrategyRaises(d, fault, 1) /\ m1 # <<>> THEN m1
        ELSE IF ~StrategyRaises(d, fault, 2) /\ m2 # <<>> THEN m2
        ELSE m3

\* what a scan depends on in the page: who wrote each message, whether it
\* has text, and its minute
Shape(d) ==
    [i \in 1..Len(d) |->
        [author |-> d[i].author,
         text |-> IF HasPre(d[i]) THEN <<"x">> ELSE <<>>,
         stamp |-> d[i].stamp]]

Shapes ==
    UNION { [1..n -> [author : {"cust", "self"}, text : {<<"x">>, <<>>}, stamp : Stamps]] :
              n \in 0..MaxMsgs }

\* for each page, the faults that give different scans: AllFail and one
\* fault for each list _get_message_elements can return
ScanFaults(sh) ==
    {AllFail} \cup
    { CHOOSE f \in Faults : get_message_elements(sh, f) = l :
        l \in { get_message_elements(sh, g) : g \in Faults } }

ScanTable == { <<sh, ScanFaults(sh)>> : sh \in Shapes }

FaultsOf(d) == (CHOOSE row \in ScanTable : row[1] = Shape(d))[2]

\* _extract_text_from_message; stale: the elements that went stale
extract_text_from_message(d, e, stale) ==
    IF e.el \in stale THEN NoneV
    ELSE LET text == Strip(d[e.el].text)
         IN  IF text # <<>> THEN text ELSE NoneV

Truthy(t) == t # NoneV /\ t # <<>>

\* read_latest_incoming_message
RECURSIVE LastIncoming(_, _)
LastIncoming(scan, k) ==
    IF k = 0 THEN 0 ELSE IF scan[k].inc THEN k ELSE LastIncoming(scan, k - 1)

read_latest_incoming_message(d, fault, stale) ==
    LET messages == get_message_elements(d, fault)
        k == LastIncoming(messages, Len(messages))
    IN  IF k = 0 THEN NoneV ELSE extract_text_from_message(d, messages[k], stale)

\* wait_for_reply: the baseline set
RECURSIVE IncomingIds(_, _)
IncomingIds(scan, k) ==
    IF k = 0 THEN {}
    ELSE (IF scan[k].inc THEN {scan[k].id} ELSE {}) \cup IncomingIds(scan, k - 1)

baseline_messages(d, fault) ==
    LET messages == get_message_elements(d, fault)
    IN  IncomingIds(messages, Len(messages))

\* variant: the baseline is not consulted
IsReply_no_baseline(d, e, base, stale, ignore_text) ==
    /\ e.inc
    /\ Truthy(extract_text_from_message(d, e, stale))
    /\ ~(ignore_text # NoneV /\ extract_text_from_message(d, e, stale) = ignore_text)

\* wait_for_reply: one element of the loop over reversed(messages) passes
\* every continue
IsReply(d, e, base, stale, ignore_text) ==
    /\ e.inc
    /\ e.id \notin base
    /\ Truthy(extract_text_from_message(d, e, stale))
    /\ ~(ignore_text # NoneV /\ extract_text_from_message(d, e, stale) = ignore_text)

\* variant: the loop runs over messages, not over reversed(messages)
RECURSIVE FirstNew_oldest(_, _, _, _, _, _)
FirstNew_oldest(d, scan, k, base, stale, ignore_text) ==
    IF k = 0 THEN 0
    ELSE LET j == FirstNew_oldest(d, scan, k - 1, base, stale, ignore_text)
         IN  IF j # 0 THEN j
             ELSE IF IsReply(d, scan[k], base, stale, ignore_text) THEN k ELSE 0

\* the index in messages of the element one poll returns (0: none)
RECURSIVE FirstNew(_, _, _, _, _, _)
FirstNew(d, scan, k, base, stale, ignore_text) ==
    IF k = 0 THEN 0
    ELSE IF IsReply(d, scan[k], base, stale, ignore_text) THEN k
    ELSE FirstNew(d, scan, k - 1, base, stale, ignore_text)

\* no element
NoElem == [el |-> 0, inc |-> FALSE, id |-> <<"", 0, 0>>]

\* wait_for_reply: one poll; the text returned and the element it is read
\* from, or NoneV to sleep and go on
poll_once(d, base, fault, stale, ignore_text) ==
    LET messages == get_message_elements(d, fault)
        k == FirstNew(d, messages, Len(messages), base, stale, ignore_text)
    IN  IF k = 0 THEN <<NoneV, NoElem>>
        ELSE <<extract_text_from_message(d, messages[k], stale), messages[k]>>

\* the poll reads element.text in the bare "except:" fallback of
\* _extract_text_from_message for some element it examines
PollReachesFallback(d, base, fault, stale) ==
    LET messages == get_message_elements(d, fault)
        k == FirstNew(d, messages, Len(messages), base, stale, NoneV)
    IN  \E j \in (k + 1)..Len(messages) :
            /\ messages[j].inc
            /\ messages[j].id \notin base
            /\ ~Truthy(extract_text_from_message(d, messages[j], stale))

ReadReachesFallback(d, fault, stale) ==
    LET messages == get_message_elements(d, fault)
        k == LastIncoming(messages, Len(messages))
    IN  k # 0 /\ ~Truthy(extract_text_from_message(d, messages[k], stale))

----------------------------------------------------------------------------
(* The provider and the client's navigation and sending *)

NavOutcomes == {"found", "slow", "nomatch", "nosearch"}
TypeOutcomes == {"sent", "fail"}

\* _check_for_blocks: an indicator is in the page source; readable: the
\* read of driver.page_source returns (when it raises, "except Exception"
\* answers False)
check_for_blocks(readable) == readable /\ blocked

\* what _check_for_blocks can answer in the current page
BlockChecks == { check_for_blocks(readable) : readable \in BOOLEAN }

\* variant: open_chat reports success whatever the search did
open_chat_always(chat, nav) == TRUE

\* open_chat returns True: the message input is discoverable after the search
open_chat(chat, nav) == nav = "found" \/ (nav = "nomatch" /\ chat # 0)

\* the conversation open after open_chat(phone)
ChatAfter(chat, c, nav) == IF nav \in {"found", "slow"} THEN c ELSE chat

\* SeleniumProvider.send_message, when open_chat does not raise
provider_send_message(chat, nav, typ) == open_chat(chat, nav) /\ typ = "sent"

\* one outcome of SeleniumProvider.send_message(c.phone, text): what it
\* returns, the conversation open afterwards and its messages; init: the
\* conversation the search opens, when it is not the one already open
SendOutcome(c, text, nav, typ, init) ==
    LET d0 == IF nav \in {"found", "slow"} /\ openChat # c.id THEN init ELSE dom
        ok == provider_send_message(openChat, nav, typ)
    IN  [ok |-> ok,
         chat |-> ChatAfter(openChat, c.id, nav),
         dom |-> IF ok
                 THEN Push(d0, [author |-> "self", text |-> Shown(text), stamp |-> LastStamp(d0)])
                 ELSE d0]

SendOutcomes(c, text) ==
    { SendOutcome(c, text, nav, typ, init) :
        nav \in NavOutcomes, typ \in TypeOutcomes, init \in InitialChats }

\* the surface after the outcome o of send_message(c.phone, text)
ApplySend(c, text, o) ==
    /\ openChat' = o.chat
    /\ dom' = o.dom
    /\ outbox' = IF o.ok
                 THEN Append(outbox, [to |-> c.id, chat |-> o.chat, src |-> text.src])
                 ELSE outbox

\* exceptions: [type, text]
BlockedError == [type |-> "WhatsAppBlockedError", text |-> Text("WhatsApp blocking detected", BlockedMsgLen)]
NoError == [type |-> "", text |-> EmptyText]
DbErrors == { [type |-> "OperationalError", text |-> Text("db", n)] : n \in {130} }

\* variant: close forgets to drop the session
ProviderClose_keeps_session ==
    /\ browser' = IF client THEN browser - 1 ELSE browser
    /\ UNCHANGED <<client, connected>>
    /\ openChat' = 0
    /\ dom' = <<>>

\* WhatsAppClient.close: what reaches the caller when driver.quit() raises
\* or not; the exception is logged, not raised
client_close(quitRaises) == NoError

\* SeleniumProvider.close; driver.quit() ends the chat surface
ProviderClose ==
    /\ browser' = IF client THEN browser - 1 ELSE browser
    /\ client' = FALSE
    /\ connected' = FALSE
    /\ openChat' = 0
    /\ dom' = <<>>

----------------------------------------------------------------------------
(* run_campaign *)

\* the customers' names: the odd ids have a name of 3 characters, the even
\* ids one of 12
NameLen(c) == IF c % 2 = 1 THEN 3 ELSE 12

\* what the run did for a customer
NewHist ==
    [readNone |-> FALSE, reqSent |-> FALSE, reqFailed |-> FALSE, waitRes |-> "",
     label |-> "", error |-> NoError,
     followOk |-> FALSE, raised |-> FALSE, delayed |-> FALSE]

Init ==
    /\ input = NoCall
    /\ output = NoCall
    /\ pc = "start"
    /\ idx = 0
    /\ pending = <<>>
    /\ \E hr \in [Customers -> BOOLEAN] :
         db = [c \in Customers |-> NewRow(NameLen(c), hr[c], "pending")]
    /\ apiKey \in BOOLEAN
    /\ client = FALSE
    /\ connected = FALSE
    /\ browser = 0
    /\ blocked = FALSE
    /\ openChat = 0
    /\ dom = <<>>
    /\ baseline = {}
    /\ polls = 0
    /\ found = NoElem
    /\ msg = NoneV
    /\ sentiment = ""
    /\ exc = NoError
    /\ outbox = <<>>
    /\ hist = [c \in Customers |-> NewHist]
    /\ intrAt = 0
    /\ blockAt = 0

cur == pending[idx]

Env == <<apiKey, pending>>
Session == <<client, connected, browser>>
Surface == <<openChat, dom, outbox>>
WaitLocals == <<baseline, polls, found>>
Marks == <<intrAt, blockAt>>

H(upd) == hist' = [hist EXCEPT ![cur.id] = upd @@ @]

\* the for loop goes to the next customer, or to the summary after the last
NextCustomer ==
    /\ idx' = idx + 1
    /\ pc' = IF idx < Len(pending) THEN "body" ELSE "summary"

\* the locals of one iteration are dead once its last statement has read
\* them: each is assigned again before the next iteration reads it
ResetLocals ==
    /\ msg' = NoneV
    /\ sentiment' = ""
    /\ baseline' = {}
    /\ polls' = 0
    /\ found' = NoElem

\* a db write of the try body (update_customer): it commits and the body
\* goes on to the delay, or it raises (nothing is written) and control goes
\* to "except Exception"
WriteOrRaise(newdb, upd) ==
    \/ /\ db' = newdb
       /\ pc' = "delay"
       /\ H(upd)
       /\ UNCHANGED exc
    \/ /\ \E e \in DbErrors : exc' = e
       /\ pc' = "handler"
       /\ H([raised |-> TRUE, error |-> exc'] @@ upd)
       /\ UNCHANGED db

\* open_chat lines 147-148: WhatsAppBlockedError leaves send_message and
\* reaches "except Exception"
RaiseBlocked ==
    /\ exc' = BlockedError
    /\ pc' = "handler"
    /\ blockAt' = IF blockAt = 0 THEN idx ELSE blockAt
    /\ H([raised |-> TRUE, error |-> BlockedError])
    /\ UNCHANGED <<db, Surface>>

\* lines 54-66
Start ==
    /\ pc = "start"
    /\ pending' = get_pending_customers(db)
    /\ pc' = IF pending' = <<>> THEN "returned" ELSE "connect"
    /\ UNCHANGED <<idx, db, apiKey, Session, blocked, Surface, WaitLocals, msg, sentiment,
                   exc, hist, Marks>>
    /\ UNCHANGED Pure

\* lines 72-75, SeleniumProvider.connect
Connect ==
    /\ pc = "connect"
    /\ \E ok \in BOOLEAN :
         IF ok
         THEN client' = TRUE /\ browser' = browser + 1 /\ pc' = "prompt"
         ELSE UNCHANGED <<client, browser>> /\ pc' = "returned"
    /\ UNCHANGED <<idx, db, Env, connected, blocked, Surface, WaitLocals, msg, sentiment,
                   exc, hist, Marks>>
    /\ UNCHANGED Pure

\* lines 82-87: input(), or KeyboardInterrupt at the prompt
Prompt ==
    /\ pc = "prompt"
    /\ \/ pc' = "confirm" /\ UNCHANGED <<Session, openChat, dom>>
       \/ ProviderClose /\ pc' = "returned"
    /\ UNCHANGED <<idx, db, Env, blocked, outbox, WaitLocals, msg, sentiment, exc, hist, Marks>>
    /\ UNCHANGED Pure

\* variant: the result of confirm_login is not looked at
ConfirmLogin_unchecked ==
    /\ pc = "confirm"
    /\ \E result \in BOOLEAN : connected' = result
    /\ idx' = 1
    /\ pc' = "body"
    /\ UNCHANGED <<client, browser, openChat, dom>>
    /\ UNCHANGED <<db, Env, blocked, outbox, WaitLocals, msg, sentiment, exc, hist, Marks>>
    /\ UNCHANGED Pure

\* lines 89-94, SeleniumProvider.confirm_login
ConfirmLogin ==
    /\ pc = "confirm"
    /\ \E result \in BOOLEAN :
         IF result
         THEN /\ connected' = TRUE
              /\ idx' = 1
              /\ pc' = "body"
              /\ UNCHANGED <<client, browser, openChat, dom>>
         ELSE /\ ProviderClose
              /\ pc' = "returned"
              /\ UNCHANGED idx
    /\ UNCHANGED <<db, Env, blocked, outbox, WaitLocals, msg, sentiment, exc, hist, Marks>>
    /\ UNCHANGED Pure

\* variant: every customer is sent the request
has_review_branch_never(c) == FALSE

\* line 104: if customer.has_review
has_review_branch(c) == c.has_review

\* the labels sentiment_service.classify(text) can return, over the
\* outcomes of the remote call
LabelTable ==
    [text \in { Strip(t) : t \in ReplyTexts } |->
        [key \in BOOLEAN |->
            { classify(text, key, remote) : remote \in RemoteOutcomes(key) }]]

Labels(text) == LabelTable[text][apiKey]

\* the scans one call can make: the strategies that raise and the elements
\* that go stale
Scans == FaultsOf(dom) \X SUBSET (1..Len(dom))

\* what provider.raw_client.read_latest_incoming_message() can return; with
\* sw, in the scans that read element.text in the bare "except:" fallback
ReadResults(sw) ==
    IF ~client THEN (IF sw THEN {} ELSE {NoneV})
    ELSE { read_latest_incoming_message(dom, x[1], x[2]) :
             x \in { y \in Scans : sw => ReadReachesFallback(dom, y[1], y[2]) } }

\* what one poll of wait_for_reply can find: <<text, element>> (NoneV:
\* nothing, sleep and go on)
PollResults(sw) ==
    { poll_once(dom, baseline, x[1], x[2], NoneV) :
        x \in { y \in Scans : sw => PollReachesFallback(dom, baseline, y[1], y[2]) } }

\* variant: a read that returns nothing is recorded as an error
Read_none_is_error(sw) ==
    /\ pc = "body"
    /\ has_review_branch(cur)
    /\ \E m \in ReadResults(sw) :
         IF Truthy(m)
         THEN /\ msg' = m
              /\ \E s \in Labels(m) : sentiment' = s
              /\ H([label |-> sentiment'])
              /\ pc' = "followup"
              /\ UNCHANGED db
         ELSE /\ UNCHANGED <<msg, sentiment>>
              /\ H([readNone |-> TRUE])
              /\ db' = mark_error(db, cur.id, Text("Could not read message", 22))
              /\ pc' = "delay"
    /\ intrAt' = IF sw THEN idx ELSE intrAt
    /\ UNCHANGED <<idx, Env, Session, blocked, Surface, WaitLocals, exc, blockAt>>
    /\ UNCHANGED Pure

\* lines 104-112 and 127-128: the customer has a review: read the latest
\* incoming message and classify it.  sw: an operator interrupt arrives in
\* the bare "except:" of _extract_text_from_message, which swallows it
Read(sw) ==
    /\ pc = "body"
    /\ has_review_branch(cur)
    /\ \E m \in ReadResults(sw) :
         IF Truthy(m)
         THEN /\ msg' = m
              /\ \E s \in Labels(m) : sentiment' = s
              /\ H([label |-> sentiment'])
              /\ pc' = "followup"
         ELSE /\ UNCHANGED <<msg, sentiment>>
              /\ H([readNone |-> TRUE])
              /\ pc' = "delay"
    /\ intrAt' = IF sw THEN idx ELSE intrAt
    /\ UNCHANGED <<idx, db, Env, Session, blocked, Surface, WaitLocals, exc, blockAt>>
    /\ UNCHANGED Pure

ReadExisting == Read(FALSE)

InterruptSwallowedInRead == Read(TRUE)

\* lines 131-134 and 157-159: the customer has no review: send the request
SendRequest ==
    /\ pc = "body"
    /\ ~has_review_branch(cur)
    /\ \E detected \in BlockChecks :
       IF client /\ detected
       THEN RaiseBlocked
       ELSE /\ \E o \in SendOutcomes(cur, REVIEW_REQUEST(cur)) :
                 /\ IF client
                    THEN ApplySend(cur, REVIEW_REQUEST(cur), o)
                    ELSE UNCHANGED Surface
                 /\ IF client /\ o.ok
                    THEN /\ pc' = "wait_base"
                         /\ H([reqSent |-> TRUE])
                         /\ UNCHANGED <<db, exc>>
                    ELSE WriteOrRaise(
                             mark_error(db, cur.id, Text("Failed to send request", 22)),
                             [reqFailed |-> TRUE])
            /\ UNCHANGED blockAt
    /\ UNCHANGED <<idx, Env, Session, blocked, WaitLocals, msg, sentiment, intrAt>>
    /\ UNCHANGED Pure

\* lines 135-136, wait_for_reply lines 417-428: the baseline
WaitBaseline ==
    /\ pc = "wait_base"
    /\ \E fault \in FaultsOf(dom) :
         baseline' = IF client THEN baseline_messages(dom, fault) ELSE {}
    /\ polls' = 0
    /\ pc' = "wait_poll"
    /\ UNCHANGED <<idx, db, Env, Session, blocked, Surface, found, msg, sentiment, exc, hist,
                   Marks>>
    /\ UNCHANGED Pure

\* wait_for_reply lines 430-462, one turn of the loop, and run_campaign
\* lines 138-142 when it returns a reply; sw as in Read
Poll(sw) ==
    /\ pc = "wait_poll"
    /\ client
    /\ polls < MaxPolls
    /\ \E r \in PollResults(sw) :
         IF r[1] # NoneV
         THEN /\ msg' = r[1]
              /\ found' = r[2]
              /\ \E s \in Labels(r[1]) : sentiment' = s
              /\ H([waitRes |-> "reply", label |-> sentiment'])
              /\ pc' = "followup"
              /\ UNCHANGED <<baseline, polls>>
         ELSE /\ polls' = polls + 1
              /\ UNCHANGED <<msg, sentiment, pc, hist, baseline, found>>
    /\ intrAt' = IF sw THEN idx ELSE intrAt
    /\ UNCHANGED <<idx, db, Env, Session, blocked, Surface, exc, blockAt>>
    /\ UNCHANGED Pure

WaitPoll == Poll(FALSE)

\* a turn of the loop can be taken: the loop condition holds, and every scan
\* gives a result
PollEnabled == pc = "wait_poll" /\ client /\ polls < MaxPolls /\ PollResults(FALSE) # {}

InterruptSwallowedInPoll == Poll(TRUE)

\* variant: when the timeout elapses the clock starts again
WaitTimeout_restarts ==
    /\ pc = "wait_poll"
    /\ polls = MaxPolls \/ ~client
    /\ polls' = 0
    /\ UNCHANGED <<pc, idx, db, Env, Session, blocked, Surface, baseline, found, msg,
                   sentiment, exc, hist, Marks>>
    /\ UNCHANGED Pure

\* wait_for_reply lines 464-465 and run_campaign lines 154-156
WaitTimeout ==
    /\ pc = "wait_poll"
    /\ polls = MaxPolls \/ ~client
    /\ WriteOrRaise(mark_no_reply(db, cur.id), [waitRes |-> "none"])
    /\ ResetLocals
    /\ UNCHANGED <<idx, Env, Session, blocked, Surface, Marks>>
    /\ UNCHANGED Pure

\* variant: the link goes to everyone
Response_always_link(c, s) == GOOGLE_LINK_MSG(c)

\* lines 114-118 and 144-147
Response(c, s) == IF s = "Positive" THEN GOOGLE_LINK_MSG(c) ELSE THANK_YOU_MSG(c)

FailedFollowup(c) ==
    IF c.has_review THEN Text("Failed to send message", 22)
    ELSE Text("Failed to send response", 23)

\* lines 121-126 and 149-153
SendFollowup ==
    /\ pc = "followup"
    /\ \E detected \in BlockChecks :
       IF client /\ detected
       THEN RaiseBlocked
       ELSE /\ \E o \in SendOutcomes(cur, Response(cur, sentiment)) :
                 /\ IF client
                    THEN ApplySend(cur, Response(cur, sentiment), o)
                    ELSE UNCHANGED Surface
                 /\ IF client /\ o.ok
                    THEN WriteOrRaise(
                             mark_done(db, cur.id, sentiment,
                                       Slice(Response(cur, sentiment), FollowTrunc)),
                             [followOk |-> TRUE])
                    ELSE WriteOrRaise(mark_error(db, cur.id, FailedFollowup(cur)),
                                      [followOk |-> FALSE])
            /\ UNCHANGED blockAt
    /\ ResetLocals
    /\ UNCHANGED <<idx, Env, Session, blocked, intrAt>>
    /\ UNCHANGED Pure

\* lines 161-163, random_delay, and the next turn of the for loop
Delay ==
    /\ pc = "delay"
    /\ H([delayed |-> (cur # pending[Len(pending)])])
    /\ NextCustomer
    /\ UNCHANGED <<db, Env, Session, blocked, Surface, WaitLocals, msg, sentiment, exc, Marks>>
    /\ UNCHANGED Pure

\* lines 168-170: except Exception; mark_error commits, or raises in the
\* except clause and the exception leaves run_campaign
Handler ==
    /\ pc = "handler"
    /\ \/ /\ db' = mark_error(db, cur.id, Slice(exc.text, ErrTrunc))
          /\ exc' = NoError
          /\ NextCustomer
       \/ /\ pc' = "aborted"
          /\ UNCHANGED <<db, idx, exc>>
    /\ UNCHANGED <<Env, Session, blocked, Surface, WaitLocals, msg, sentiment, hist, Marks>>
    /\ UNCHANGED Pure

\* lines 172-179: the summary (get_stats may raise), then provider.close()
Summary ==
    /\ pc = "summary"
    /\ \/ ProviderClose /\ pc' = "returned"
       \/ pc' = "aborted" /\ UNCHANGED <<Session, openChat, dom>>
    /\ UNCHANGED <<idx, db, Env, blocked, outbox, WaitLocals, msg, sentiment, exc, hist, Marks>>
    /\ UNCHANGED Pure

TryPcs == {"body", "wait_base", "wait_poll", "followup", "delay"}

\* lines 165-167: KeyboardInterrupt inside the try: break
InterruptInTry ==
    /\ pc \in TryPcs
    /\ pc' = "summary"
    /\ intrAt' = idx
    /\ ResetLocals
    /\ UNCHANGED <<idx, db, Env, Session, blocked, Surface, exc, hist, blockAt>>
    /\ UNCHANGED Pure

\* KeyboardInterrupt where nothing catches it: in confirm_login, in the
\* except clause, in the summary
InterruptUncaught ==
    /\ pc \in {"confirm", "handler", "summary"}
    /\ pc' = "aborted"
    /\ intrAt' = IF pc = "handler" THEN idx ELSE intrAt
    /\ UNCHANGED <<idx, db, Env, Session, blocked, Surface, WaitLocals, msg, sentiment, exc,
                   hist, blockAt>>
    /\ UNCHANGED Pure

\* the customer writes text into the open conversation, in minute st
ArriveWith(text, st) ==
    /\ pc \in {"wait_base", "wait_poll"}
    /\ openChat # 0
    /\ Len(dom) < MaxMsgs
    /\ st >= LastStamp(dom)
    /\ dom' = Append(dom, [author |-> "cust", text |-> text, stamp |-> st])
    /\ UNCHANGED <<pc, idx, db, Env, Session, blocked, openChat, outbox, WaitLocals, msg,
                   sentiment, exc, hist, Marks>>
    /\ UNCHANGED Pure

\* the customer answers while the run waits, a minute or more after the
\* last message shown
Arrive == \E text \in ReplyTexts \cup {<<>>} : ArriveWith(text, LastStamp(dom) + 1)

\* the account is flagged: a block indicator shows in the page the next
\* open_chat reads
BlockAppears ==
    /\ pc \in {"body", "followup"}
    /\ ~blocked
    /\ blocked' = TRUE
    /\ UNCHANGED <<pc, idx, db, Env, Session, Surface, WaitLocals, msg, sentiment, exc,
                   hist, Marks>>
    /\ UNCHANGED Pure

Next ==
    \/ Start
    \/ Connect
    \/ Prompt
    \/ ConfirmLogin
    \/ ReadExisting
    \/ InterruptSwallowedInRead
    \/ SendRequest
    \/ WaitBaseline
    \/ WaitPoll
    \/ InterruptSwallowedInPoll
    \/ WaitTimeout
    \/ SendFollowup
    \/ Delay
    \/ Handler
    \/ Summary
    \/ InterruptInTry
    \/ InterruptUncaught
    \/ Arrive
    \/ BlockAppears

Spec == Init /\ [][Next]_vars

----------------------------------------------------------------------------
(* wait_for_reply on its own: the run has sent the request to its first    *)
(* customer and calls provider.wait_for_reply; the open conversation holds *)
(* any messages, and the customer writes any text in the same or a later   *)
(* minute while the call polls.                                            *)

WaitMsgs ==
    { [author |-> "cust", text |-> t, stamp |-> st] :
        t \in {<<>>, T_ok, T_loved}, st \in Stamps }
    \cup { [author |-> "self", text |-> D_request, stamp |-> st] : st \in Stamps }

Ordered(d) == \A i \in 1..(Len(d) - 1) : d[i].stamp <= d[i + 1].stamp

\* n: the most messages the conversation holds when the call is made
InitWaitOn(n) ==
    /\ input = NoCall
    /\ output = NoCall
    /\ pc = "wait_base"
    /\ idx = 1
    /\ db = [c \in Customers |-> NewRow(NameLen(c), FALSE, "pending")]
    /\ pending = get_pending_customers(db)
    /\ apiKey = FALSE
    /\ client = TRUE
    /\ connected = TRUE
    /\ browser = 1
    /\ blocked = FALSE
    /\ openChat = 1
    /\ dom \in { d \in UNION { [1..k -> WaitMsgs] : k \in 0..n } : Ordered(d) }
    /\ baseline = {}
    /\ polls = 0
    /\ found = NoElem
    /\ msg = NoneV
    /\ sentiment = ""
    /\ exc = NoError
    /\ outbox = <<[to |-> 1, chat |-> 1, src |-> "REVIEW_REQUEST"]>>
    /\ hist = [c \in Customers |-> IF c = 1 THEN [NewHist EXCEPT !.reqSent = TRUE] ELSE NewHist]
    /\ intrAt = 0
    /\ blockAt = 0

\* room is left for one message to arrive
InitWait == InitWaitOn(MaxMsgs - 1)

ArriveAny == \E text \in ReplyTexts \cup {<<>>}, st \in Stamps : ArriveWith(text, st)

NextWait ==
    \/ WaitBaseline
    \/ WaitPoll
    \/ InterruptSwallowedInPoll
    \/ WaitTimeout
    \/ ArriveAny

SpecWait == InitWait /\ [][NextWait]_vars

\* the thread that runs wait_for_reply is scheduled: the baseline is taken,
\* each turn of the loop ends after its sleep, and the return after the loop
\* is reached
\* as WF_vars(WaitPoll), whose enabling condition PollEnabled writes out
SpecWaitLive ==
    /\ SpecWait
    /\ WF_vars(WaitBaseline)
    /\ []<>~PollEnabled \/ []<><<WaitPoll>>_vars
    /\ WF_vars(WaitTimeout)

\* wait_for_reply with every message arriving in time: before the call takes
\* its baseline, or while a poll is still to come
ArriveInTime == polls < MaxPolls /\ ArriveAny

NextWaitInTime ==
    \/ WaitBaseline
    \/ WaitPoll
    \/ InterruptSwallowedInPoll
    \/ WaitTimeout
    \/ ArriveInTime

SpecWaitInTime == InitWait /\ [][NextWaitInTime]_vars

\* wait_for_reply with nobody writing while it runs: every message it scans
\* was in the conversation when it was called
InitWaitQuiet == InitWaitOn(MaxMsgs)

NextWaitQuiet ==
    \/ WaitBaseline
    \/ WaitPoll
    \/ InterruptSwallowedInPoll
    \/ WaitTimeout

SpecWaitQuiet == InitWaitQuiet /\ [][NextWaitQuiet]_vars

----------------------------------------------------------------------------
(* SeleniumProvider on its own: a caller holds one provider and calls      *)
(* connect, confirm_login, send_message and close in any order, any number *)
(* of times; pc names the last call, "p_close2" a close that follows a     *)
(* close.                                                                  *)

\* browsers a caller opens before it stops connecting, messages it sends
MaxSessions == 2
MaxSends == 2

InitProvider ==
    /\ input = NoCall
    /\ output = NoCall
    /\ pc = "p_new"
    /\ idx = 1
    /\ db = [c \in Customers |-> NewRow(NameLen(c), FALSE, "pending")]
    /\ pending = get_pending_customers(db)
    /\ apiKey = FALSE
    /\ client = FALSE
    /\ connected = FALSE
    /\ browser = 0
    /\ blocked \in BOOLEAN
    /\ openChat = 0
    /\ dom = <<>>
    /\ baseline = {}
    /\ polls = 0
    /\ found = NoElem
    /\ msg = NoneV
    /\ sentiment = ""
    /\ exc = NoError
    /\ outbox = <<>>
    /\ hist = [c \in Customers |-> NewHist]
    /\ intrAt = 0
    /\ blockAt = 0

Idle == <<idx, db, Env, blocked, WaitLocals, msg, sentiment, hist, Marks>>

\* SeleniumProvider.connect: a new WhatsAppClient, with its own browser
\* session and no conversation open, replaces the one held (nothing closes
\* the session of the one held), or its construction raises and connect
\* returns False
P_Connect ==
    /\ browser < MaxSessions
    /\ \E ok \in BOOLEAN :
         IF ok
         THEN /\ client' = TRUE
              /\ browser' = browser + 1
              /\ openChat' = 0
              /\ dom' = <<>>
         ELSE UNCHANGED <<client, browser, openChat, dom>>
    /\ pc' = "p_connect"
    /\ exc' = NoError
    /\ UNCHANGED <<connected, outbox, Idle>>
    /\ UNCHANGED Pure

\* SeleniumProvider.confirm_login
P_ConfirmLogin ==
    /\ IF client
       THEN \E result \in BOOLEAN : connected' = result
       ELSE UNCHANGED connected
    /\ pc' = "p_confirm"
    /\ exc' = NoError
    /\ UNCHANGED <<client, browser, Surface, Idle>>
    /\ UNCHANGED Pure

\* what a call gave its caller: a value (a text, None, True or False), or
\* an exception (exc)
TrueV == <<"<True>">>
FalseV == <<"<False>">>
Bool(b) == IF b THEN TrueV ELSE FalseV
Returned(v) == [raised |-> FALSE, value |-> v]
Raised == [raised |-> TRUE, value |-> NoneV]

\* the scan x = <<fault, stale>> misses: every strategy raises, or every
\* element is stale
ScanMisses(x) == x[1] = AllFail \/ x[2] = 1..Len(dom)

\* SeleniumProvider.send_message(c.phone, text): <<miss, outcome>>; miss:
\* the search box is not found, or an element fails while the text is typed
SendCalls(c) ==
    { <<nav = "nosearch" \/ typ = "fail", SendOutcome(c, REVIEW_REQUEST(c), nav, typ, init)>> :
        nav \in NavOutcomes, typ \in TypeOutcomes, init \in InitialChats }

P_Send ==
    /\ Len(outbox) < MaxSends
    /\ \E j \in 1..Len(pending), detected \in BlockChecks :
       \E call \in SendCalls(pending[j]) :
         /\ input' = [op |-> "send", miss |-> call[1]]
         /\ IF client /\ detected
            THEN exc' = BlockedError /\ output' = Raised /\ UNCHANGED Surface
            ELSE /\ exc' = NoError
                 /\ IF client
                    THEN /\ ApplySend(pending[j], REVIEW_REQUEST(pending[j]), call[2])
                         /\ output' = Returned(Bool(call[2].ok))
                    ELSE UNCHANGED Surface /\ output' = Returned(Bool(FALSE))
    /\ pc' = "p_send"
    /\ UNCHANGED <<Session, Idle>>

\* SeleniumProvider.read_latest_incoming: <<miss, value>>
ReadCalls ==
    { <<ScanMisses(x),
        IF client THEN read_latest_incoming_message(dom, x[1], x[2]) ELSE NoneV>> :
        x \in Scans }

P_Read ==
    /\ \E call \in ReadCalls :
         /\ input' = [op |-> "read", miss |-> call[1]]
         /\ output' = Returned(call[2])
    /\ exc' = NoError
    /\ pc' = "p_read"
    /\ UNCHANGED <<Session, Surface, Idle>>

\* SeleniumProvider.wait_for_reply with nobody writing meanwhile: the
\* baseline scan has the faults f0, and a poll with the scan x returns, or
\* every poll has the scan x and the timeout elapses
WaitCalls ==
    { <<ScanMisses(y[2]),
        IF client THEN poll_once(dom, y[1], y[2][1], y[2][2], NoneV)[1] ELSE NoneV>> :
        y \in { baseline_messages(dom, f0) : f0 \in FaultsOf(dom) } \X Scans }

P_Wait ==
    /\ \E call \in WaitCalls :
         /\ input' = [op |-> "wait", miss |-> call[1]]
         /\ output' = Returned(call[2])
    /\ exc' = NoError
    /\ pc' = "p_wait"
    /\ UNCHANGED <<Session, Surface, Idle>>

\* SeleniumProvider.close
P_Close ==
    /\ \E quitRaises \in BOOLEAN :
         exc' = IF client THEN client_close(quitRaises) ELSE NoError
    /\ ProviderClose
    /\ pc' = IF pc \in {"p_close", "p_close2"} THEN "p_close2" ELSE "p_close"
    /\ UNCHANGED <<outbox, Idle>>
    /\ UNCHANGED Pure

NextProvider ==
    \/ P_Connect
    \/ P_ConfirmLogin
    \/ P_Send
    \/ P_Read
    \/ P_Wait
    \/ P_Close

SpecProvider == InitProvider /\ [][NextProvider]_vars

----------------------------------------------------------------------------
(* APIProvider on its own: a caller constructs the provider with or without *)
(* its credentials and calls connect, send_message, wait_for_reply and      *)
(* close in any order; input is the list of the calls made, the           *)
(* constructor's first, output what the last one gave.                     *)

\* calls a caller makes on one provider
MaxCalls == 3

InitApi ==
    /\ pc = "a_new"
    /\ idx = 0
    /\ db = [c \in Customers |-> NewRow(NameLen(c), FALSE, "pending")]
    /\ pending = get_pending_customers(db)
    /\ apiKey = FALSE
    /\ client = FALSE
    /\ connected = FALSE
    /\ browser = 0
    /\ blocked = FALSE
    /\ openChat = 0
    /\ dom = <<>>
    /\ baseline = {}
    /\ polls = 0
    /\ found = NoElem
    /\ msg = NoneV
    /\ sentiment = ""
    /\ exc = NoError
    /\ outbox = <<>>
    /\ hist = [c \in Customers |-> NewHist]
    /\ intrAt = 0
    /\ blockAt = 0
    /\ \E key \in BOOLEAN, pid \in BOOLEAN :
         input = <<[op |-> "a_init", api_key |-> key, phone_number_id |-> pid]>>
    /\ output = NoCall

\* connected is self._connected; the constructor call says whether
\* self._api_key and self._phone_number_id are non-empty
HasCredentials == input[1].api_key /\ input[1].phone_number_id

ApiIdle == <<idx, db, Env, client, browser, blocked, Surface, WaitLocals, msg, sentiment,
             hist, Marks>>

ApiCall(op, to) ==
    /\ Len(input) <= MaxCalls
    /\ input' = Append(input, [op |-> op, to |-> to])
    /\ pc' = op

\* APIProvider.connect
A_Connect ==
    /\ ApiCall("a_connect", 0)
    /\ connected' = IF HasCredentials THEN TRUE ELSE connected
    /\ output' = Returned(Bool(HasCredentials))
    /\ UNCHANGED <<exc, ApiIdle>>

\* APIProvider.send_message(c.phone, text)
A_Send ==
    /\ \E c \in Customers : ApiCall("a_send", c)
    /\ output' = Returned(FalseV)
    /\ UNCHANGED <<connected, exc, ApiIdle>>

\* APIProvider.wait_for_reply(c.phone)
A_Wait ==
    /\ \E c \in Customers : ApiCall("a_wait", c)
    /\ output' = Returned(NoneV)
    /\ UNCHANGED <<connected, exc, ApiIdle>>

\* APIProvider.close
A_Close ==
    /\ ApiCall("a_close", 0)
    /\ connected' = FALSE
    /\ output' = Returned(NoneV)
    /\ UNCHANGED <<exc, ApiIdle>>

NextApi ==
    \/ A_Connect
    \/ A_Send
    \/ A_Wait
    \/ A_Close

SpecApi == InitApi /\ [][NextApi]_vars

----------------------------------------------------------------------------
(* The campaign run with the web dashboard serving requests alongside it:  *)
(* both open the same database file, and an operator may press "reset" on  *)
(* any customer at any moment.                                             *)

InitWeb == Init /\ apiKey = FALSE

\* app.py, POST /customer/{customer_id}/reset
WebReset ==
    /\ \E c \in Customers : db' = reset_customer(db, c)
    /\ UNCHANGED <<pc, idx, Env, Session, blocked, Surface, WaitLocals, msg, sentiment, exc,
                   hist, Marks, Pure>>

NextWeb ==
    \/ Next
    \/ WebReset

SpecWeb == InitWeb /\ [][NextWeb]_vars

----------------------------------------------------------------------------
(* Functions called on their own: input holds the arguments, output the    *)
(* result, and nothing else moves.                                         *)

Rest == <<idx, pending, db, apiKey, client, connected, browser, blocked, openChat, dom,
          baseline, polls, found, msg, sentiment, exc, outbox, hist, intrAt, blockAt>>

InitRest ==
    /\ idx = 0
    /\ pending = <<>>
    /\ db = [c \in Customers |-> NewRow(NameLen(c), FALSE, "pending")]
    /\ apiKey = FALSE
    /\ client = FALSE
    /\ connected = FALSE
    /\ browser = 0
    /\ blocked = FALSE
    /\ openChat = 0
    /\ dom = <<>>
    /\ baseline = {}
    /\ polls = 0
    /\ found = NoElem
    /\ msg = NoneV
    /\ sentiment = ""
    /\ exc = NoError
    /\ outbox = <<>>
    /\ hist = [c \in Customers |-> NewHist]
    /\ intrAt = 0
    /\ blockAt = 0

(* SentimentService.classify *)

\* the texts classify is called with
ClassifyTexts ==
    { <<>>,
      T_ok,
      <<" ","o","k"," "," ">>,
      <<" "," "," "," ">>,
      <<"b","a","d">>,
      <<" ","b","a","d"," ">>,
      <<"G","R","E","A","T">>,
      <<"g","o","o","d"," ","b","u","t"," ","b","a","d">>,
      T_loved,
      T_terrible,
      T_fine }

\* what the request of _classify_with_llm can do: raise (requests.Timeout,
\* another RequestException, the HTTPError of raise_for_status, the
\* ValueError of response.json(), the AttributeError of a payload that is
\* not a dict or whose content is null), or give a payload whose
\* choices[0].message.content is content (<<>> also for a payload without
\* choices)
RemoteFailures == {"timeout", "network", "http_error", "bad_json", "bad_shape"}

RemoteContents ==
    { <<>>,
      <<" "," ">>,
      <<"p","o","s","i","t","i","v","e">>,
      <<"N","E","G","A","T","I","V","E">>,
      <<" ","N","E","G","A","T","I","V","E",".">>,
      <<"N","e","u","t","r","a","l">>,
      <<"n","e","g","a","t","i","v","e"," ","t","o","n","e">>,
      <<"S","u","r","e","!"," ","P","o","s","i","t","i","v","e">> }

RemoteCases(key) ==
    IF ~key THEN { [ok |-> FALSE, content |-> <<>>, why |-> "no_call"] }
    ELSE { [ok |-> FALSE, content |-> <<>>, why |-> w] : w \in RemoteFailures }
         \cup { [ok |-> TRUE, content |-> c, why |-> "payload"] : c \in RemoteContents }

InitClassify ==
    /\ pc = "k_call"
    /\ \E text \in ClassifyTexts, key \in BOOLEAN :
       \E remote \in RemoteCases(key) :
           input = [text |-> text, key |-> key, remote |-> remote]
    /\ output = NoCall
    /\ InitRest

Classify ==
    /\ pc = "k_call"
    /\ output' = [raised |-> FALSE,
                  value |-> classify(input.text, input.key, input.remote),
                  called |-> remote_called(input.text, input.key)]
    /\ pc' = "k_done"
    /\ UNCHANGED <<input, Rest>>

NextClassify == Classify

SpecClassify == InitClassify /\ [][NextClassify]_vars

(* ExcelParser._clean_phone *)

\* the longest phone string
MaxPhoneLen == 4

Digits == {"0", "1", "2", "3", "4", "5", "6", "7", "8", "9"}

\* the characters phone strings are made of
PhoneChars == {"+", "0", "9", " ", "-"}

S_nan == <<"n","a","n">>

Phones ==
    UNION { [1..n -> PhoneChars] : n \in 0..MaxPhoneLen } \cup {S_nan, <<"N","a","N">>}

\* re.sub(r'[^\d+]', '', s)
RECURSIVE KeepDigitsAndPlus(_)
KeepDigitsAndPlus(s) ==
    IF s = <<>> THEN <<>>
    ELSE (IF Head(s) \in Digits \cup {"+"} THEN <<Head(s)>> ELSE <<>>)
         \o KeepDigitsAndPlus(Tail(s))

\* s.startswith(prefix)
StartsWith(s, prefix) == Len(s) >= Len(prefix) /\ SubSeq(s, 1, Len(prefix)) = prefix

\* s[n:]
DropFirst(s, n) == SubSeq(s, n + 1, Len(s))

\* ExcelParser._clean_phone
clean_phone(phone) ==
    IF phone = <<>> \/ Lower(phone) = S_nan THEN <<>>
    ELSE LET cleaned == KeepDigitsAndPlus(Strip(phone))
             noplus == IF StartsWith(cleaned, <<"+">>) THEN DropFirst(cleaned, 1) ELSE cleaned
         IN  IF StartsWith(noplus, <<"0","0">>) THEN DropFirst(noplus, 2) ELSE noplus

InitPhone ==
    /\ pc = "n_call"
    /\ input \in Phones
    /\ output = NoCall
    /\ InitRest

CleanPhone ==
    /\ pc = "n_call"
    /\ output' = Returned(clean_phone(input))
    /\ pc' = "n_done"
    /\ UNCHANGED <<input, Rest>>

NextPhone == CleanPhone

SpecPhone == InitPhone /\ [][NextPhone]_vars

(* WhatsAppClient._get_message_elements *)

InitScan ==
    /\ pc = "g_call"
    /\ input \in [d : Shapes, fault : Faults]
    /\ output = NoCall
    /\ InitRest

GetMessageElements ==
    /\ pc = "g_call"
    /\ output' = Returned(get_message_elements(input.d, input.fault))
    /\ pc' = "g_done"
    /\ UNCHANGED <<input, Rest>>

NextScan == GetMessageElements

SpecScan == InitScan /\ [][NextScan]_vars

(* One poll of WhatsAppClient.wait_for_reply *)

\* the baselines a conversation can have had when it held its first k
\* messages
PollBaselines(d) ==
    { baseline_messages(SubSeq(d, 1, k), f) :
        k \in 0..Len(d), f \in UNION { FaultsOf(SubSeq(d, 1, j)) : j \in 0..Len(d) } }

InitPoll ==
    /\ pc = "w_call"
    /\ \E d \in { p \in UNION { [1..n -> WaitMsgs] : n \in 0..MaxMsgs } : Ordered(p) } :
       \E base \in PollBaselines(d), fault \in FaultsOf(d), stale \in SUBSET (1..Len(d)),
          ignore_text \in {NoneV, T_ok} :
           input = [d |-> d, base |-> base, fault |-> fault, stale |-> stale,
                    ignore_text |-> ignore_text]
    /\ output = NoCall
    /\ InitRest

PollOnce ==
    /\ pc = "w_call"
    /\ output' = Returned(poll_once(input.d, input.base, input.fault, input.stale,
                                    input.ignore_text))
    /\ pc' = "w_done"
    /\ UNCHANGED <<input, Rest>>

NextPoll == PollOnce

SpecPoll == InitPoll /\ [][NextPoll]_vars

(* WhatsAppClient.send_message *)

\* the longest text typed
MaxTextLen == 120

chunk_size == 50

\* text[i:i + chunk_size] for i in range(0, len(text), chunk_size)
RECURSIVE Chunks(_)
Chunks(text) ==
    IF text = <<>> THEN <<>>
    ELSE <<SubSeq(text, 1, Min(chunk_size, Len(text)))>>
         \o Chunks(SubSeq(text, chunk_size + 1, Len(text)))

\* variant: ENTER is sent although a call before it raised
client_send_message_submits(text, box, failAt) ==
    IF ~box THEN [ok |-> FALSE, typed |-> <<>>, entered |-> FALSE]
    ELSE [ok |-> failAt >= Len(Chunks(text)) + 2,
          typed |-> SubSeq(Chunks(text), 1, Min(failAt - 1, Len(Chunks(text)))),
          entered |-> TRUE]

\* WhatsAppClient.send_message(text).  box: _find_message_input returns
\* an element; failAt: the number of calls on it that return before one
\* raises, the calls being click, one send_keys for each chunk, and
\* send_keys(ENTER).  typed: the chunks whose send_keys returned; entered:
\* send_keys(ENTER) returned
client_send_message(text, box, failAt) ==
    IF ~box THEN [ok |-> FALSE, typed |-> <<>>, entered |-> FALSE]
    ELSE IF failAt >= Len(Chunks(text)) + 2
         THEN [ok |-> TRUE, typed |-> Chunks(text), entered |-> TRUE]
         ELSE [ok |-> FALSE,
               typed |-> SubSeq(Chunks(text), 1, failAt - 1),
               entered |-> FALSE]

\* the calls send_message makes on the input for the longest text
MaxSendCalls == (MaxTextLen + chunk_size - 1) \div chunk_size + 2

InitSend ==
    /\ pc = "s_call"
    /\ \E n \in 0..MaxTextLen, box \in BOOLEAN, failAt \in 0..MaxSendCalls :
         input = [text |-> [i \in 1..n |-> i], box |-> box, failAt |-> failAt]
    /\ output = NoCall
    /\ InitRest

ClientSendMessage ==
    /\ pc = "s_call"
    /\ output' = Returned(client_send_message(input.text, input.box, input.failAt))
    /\ pc' = "s_done"
    /\ UNCHANGED <<input, Rest>>

NextSend == ClientSendMessage

SpecSend == InitSend /\ [][NextSend]_vars

(* Strategy 1 of _get_message_elements: the direction of a message *)

\* the longest name of a sender
MaxNameLen == 4

SenderNames == UNION { [1..n -> {"Y", "o", "u", "A"}] : n \in 1..MaxNameLen }

InitDirection ==
    /\ pc = "d_call"
    /\ input \in [author : {"cust", "self"}, name : SenderNames, stamp : Stamps]
    /\ output = NoCall
    /\ InitRest

Direction ==
    /\ pc = "d_call"
    /\ output' = Returned(Bool(is_incoming(PreText(input.author, input.name, input.stamp))))
    /\ pc' = "d_done"
    /\ UNCHANGED <<input, Rest>>

NextDirection == Direction

SpecDirection == InitDirection /\ [][NextDirection]_vars

----------------------------------------------------------------------------
(* Properties of the campaign run (Spec) and of wait_for_reply (SpecWait) *)

\* the customer at position j of the pending list
At(j) == pending[j].id

\* the iteration of the customer at position j has ended
Completed(j) == j \in 1..Len(pending) /\ idx > j

\* a customer after position j is being processed
LaterStarted(j) == idx > j /\ idx <= Len(pending)

FollowUps == {"GOOGLE_LINK_MSG", "THANK_YOU_MSG"}

\* C1: when the processing of a customer has ended, the status is one of
\* done, no_reply, error and pending, and it is pending only for a customer
\* that had a review and whose message read returned nothing.
C1_StatusTotal ==
    \A j \in 1..Len(pending) :
        Completed(j) =>
            /\ db[At(j)].status \in {"done", "no_reply", "error", "pending"}
            /\ db[At(j)].status = "pending" =>
                   pending[j].has_review /\ hist[At(j)].readNone

\* both customers are done with, the first one still pending
C1_Witness ==
    /\ Len(pending) >= 2
    /\ Completed(2)
    /\ db[At(1)].status = "pending"
    /\ db[At(2)].status \in {"done", "no_reply", "error"}

\* C2: once a send has raised WhatsAppBlockedError for a customer, no
\* customer later in the list is processed.
C2_BlockedHaltsCampaign == blockAt # 0 => ~LaterStarted(blockAt)

\* C3: a step taken while customer c is the current one leaves the row of
\* every other customer as it was; outside the loop no row changes.
C3_OthersUnchanged ==
    [][\A c \in Customers :
          (idx \notin 1..Len(pending) \/ c # At(idx)) => db'[c] = db[c]]_vars

\* the second customer is marked done after the first one was
C3_Witness ==
    /\ Len(pending) >= 2
    /\ idx = 2
    /\ pc = "delay"
    /\ db[At(1)].status = "done"
    /\ db[At(2)].status = "done"

\* C4: after an operator interrupt during the processing of a customer, no
\* customer later in the list is processed.
C4_InterruptStopsLoop == intrAt # 0 => ~LaterStarted(intrAt)

\* C5: when the processing of a customer that is not the last has ended,
\* the random delay was taken for it; it is never taken for the last one.
C5_DelayBetweenCustomers ==
    \A j \in 1..Len(pending) :
        /\ (Completed(j) /\ j < Len(pending)) => hist[At(j)].delayed
        /\ j = Len(pending) => ~hist[At(j)].delayed

\* C6: when run_campaign has been left after connect(), the browser session
\* has been closed.
C6_CloseOnEveryExit == pc \in {"returned", "aborted"} => (browser = 0 /\ ~client)

\* the elements some scan of the open conversation yields
Scanned == UNION { { get_message_elements(dom, f)[k] :
                       k \in 1..Len(get_message_elements(dom, f)) } : f \in FaultsOf(dom) }

\* C7: wait_for_reply returns a text only from an element of a scan of the
\* open conversation that is incoming and whose token is not in the
\* baseline, the text being that element's text and not empty; it returns
\* none only after the last poll, and a poll that finds nothing returns
\* nothing.
C7_ReplyIsNewIncoming ==
    [][pc = "wait_poll" =>
          /\ pc' = "followup" =>
                 /\ found' \in Scanned
                 /\ found'.inc
                 /\ dom[found'.el].author = "cust"
                 /\ found'.id \notin baseline
                 /\ msg' = Strip(dom[found'.el].text)
                 /\ msg' # <<>>
          /\ pc' = "wait_poll" => (msg' = NoneV /\ found' = NoElem)
          /\ pc' \in {"delay", "handler"} =>
                 (polls = MaxPolls /\ msg' = NoneV)]_vars

\* a reply was returned though the baseline holds an earlier message, seen
\* again in the scan that found the reply
C7_Witness ==
    /\ pc = "followup"
    /\ hist[1].waitRes = "reply"
    /\ \E e \in Scanned : e.id \in baseline /\ e.inc /\ e.id[1] = found.id[1]
    /\ found.id \notin baseline
    /\ msg = Strip(dom[found.el].text)

\* C8: request sent, no reply within the timeout, status write returned:
\* the status is no_reply, no label and no last message are stored and no
\* follow-up is sent to the customer.  (A status write that raises is an
\* unexpected exception: control goes to "except Exception".)
C8_NoReply ==
    \A c \in Customers :
        (hist[c].reqSent /\ hist[c].waitRes = "none" /\ ~hist[c].raised) =>
            /\ db[c].status = "no_reply"
            /\ db[c].sentiment = ""
            /\ db[c].last_message = EmptyText
            /\ hist[c].label = ""
            /\ \A k \in 1..Len(outbox) :
                   outbox[k].to = c => outbox[k].src \notin FollowUps

\* the first customer got the request and never answered
C8_Witness ==
    /\ Len(pending) >= 1
    /\ Completed(1)
    /\ hist[At(1)].reqSent
    /\ hist[At(1)].waitRes = "none"
    /\ ~hist[At(1)].raised
    /\ db[At(1)].status = "no_reply"

\* C9: a follow-up sent to a customer is GOOGLE_LINK_MSG exactly when the
\* label of that customer is Positive, THANK_YOU_MSG otherwise, in both
\* branches.
C9_LinkIffPositive ==
    \A k \in 1..Len(outbox) :
        outbox[k].src \in FollowUps =>
            /\ hist[outbox[k].to].label \in {"Positive", "Neutral", "Negative"}
            /\ (outbox[k].src = "GOOGLE_LINK_MSG") <=>
                   (hist[outbox[k].to].label = "Positive")

\* a customer with a review got the link, one without got the plain thanks
C9_Witness ==
    /\ Len(pending) >= 2
    /\ \E k1, k2 \in 1..Len(outbox) :
          /\ outbox[k1].src = "GOOGLE_LINK_MSG"
          /\ outbox[k2].src = "THANK_YOU_MSG"
          /\ \E j1, j2 \in 1..Len(pending) :
                /\ At(j1) = outbox[k1].to
                /\ At(j2) = outbox[k2].to
                /\ pending[j1].has_review
                /\ ~pending[j2].has_review

\* the first 100 characters of the follow-up for a label
Snapshot(c, label) ==
    IF label = "Positive"
    THEN [src |-> "GOOGLE_LINK_MSG", pre |-> 0,
          len |-> Min(GoogleLinkLen + NameLen(c) + LinkLen, FollowTrunc)]
    ELSE [src |-> "THANK_YOU_MSG", pre |-> 0,
          len |-> Min(ThankYouLen + NameLen(c), FollowTrunc)]

\* C10: follow-up sent and status write returned: the status is done, the
\* stored label is the classifier's and the last message is the first 100
\* characters of the follow-up text.
C10_Done ==
    \A c \in Customers :
        (hist[c].followOk /\ ~hist[c].raised) =>
            /\ db[c].status = "done"
            /\ db[c].sentiment = hist[c].label
            /\ db[c].sentiment \in {"Positive", "Neutral", "Negative"}
            /\ db[c].last_message = Snapshot(c, hist[c].label)

\* a customer is done with a last message cut to 100 characters, another
\* with one shorter than that
C10_Witness ==
    \E c1, c2 \in Customers :
        /\ hist[c1].followOk /\ ~hist[c1].raised
        /\ hist[c2].followOk /\ ~hist[c2].raised
        /\ db[c1].last_message.len = FollowTrunc
        /\ db[c2].last_message.len < FollowTrunc

\* the run is in wait_for_reply for the customer at position j
Waiting(j) == idx = j /\ pc \in {"wait_base", "wait_poll"}

\* the loop has left the iteration of position j, or is about to through
\* the delay; it stopped there only on an operator interrupt
GoesOn(j) ==
    idx = j => \/ pc = "delay"
               \/ pc \in {"summary", "returned", "aborted"} /\ intrAt = j

\* C11: when the send of the review request returns false, wait_for_reply
\* is not called for the customer, the status becomes error with the
\* reason "Error: Failed to send request" as last message, and the loop
\* goes on to the next customer.  (A status write that raises goes to
\* "except Exception", which records the error itself.)
C11_RequestFails ==
    \A j \in 1..Len(pending) :
        hist[At(j)].reqFailed =>
            /\ ~pending[j].has_review
            /\ ~hist[At(j)].reqSent
            /\ hist[At(j)].waitRes = ""
            /\ ~Waiting(j)
            /\ \A k \in 1..Len(outbox) : outbox[k].to # At(j)
            /\ ~hist[At(j)].raised =>
                   /\ db[At(j)].status = "error"
                   /\ db[At(j)].last_message =
                          [src |-> "Failed to send request", pre |-> 7, len |-> 29]
                   /\ db[At(j)].sentiment = ""
                   /\ GoesOn(j)
            /\ Completed(j) =>
                   db[At(j)].status = "error" /\ db[At(j)].last_message.len > 0

\* the request to the first customer failed and the second customer is
\* being processed
C11_Witness ==
    /\ Len(pending) >= 2
    /\ idx = 2
    /\ pc \in TryPcs
    /\ hist[At(1)].reqFailed
    /\ ~hist[At(1)].raised
    /\ db[At(1)].status = "error"

\* C12: a customer fetched with has_review set is never sent the review
\* request and wait_for_reply is never called for it; what it is sent, if
\* anything, is the follow-up for the label of the text read.
C12_ReviewedNoRequest ==
    \A j \in 1..Len(pending) :
        pending[j].has_review =>
            /\ ~hist[At(j)].reqSent
            /\ ~hist[At(j)].reqFailed
            /\ hist[At(j)].waitRes = ""
            /\ ~Waiting(j)
            /\ \A k \in 1..Len(outbox) :
                   outbox[k].to = At(j) =>
                       /\ outbox[k].src \in FollowUps
                       /\ hist[At(j)].label # ""
                       /\ ~hist[At(j)].readNone

\* a customer with a review was sent a follow-up and is done
C12_Witness ==
    \E j \in 1..Len(pending) :
        /\ pending[j].has_review
        /\ Completed(j)
        /\ db[At(j)].status = "done"
        /\ \E k \in 1..Len(outbox) : outbox[k].to = At(j)

\* C13: when the read for a customer with a review returns nothing, the
\* customer's row stays as it was fetched (pending, no label, no last
\* message), nothing is sent to the customer and the loop goes on.
C13_ReadNothing ==
    \A j \in 1..Len(pending) :
        hist[At(j)].readNone =>
            /\ pending[j].has_review
            /\ db[At(j)] = NewRow(NameLen(At(j)), TRUE, "pending")
            /\ hist[At(j)].label = ""
            /\ ~hist[At(j)].raised
            /\ \A k \in 1..Len(outbox) : outbox[k].to # At(j)
            /\ GoesOn(j)

\* the read for the first customer returned nothing and the second
\* customer is being processed
C13_Witness ==
    /\ Len(pending) >= 2
    /\ idx = 2
    /\ pc \in TryPcs
    /\ hist[At(1)].readNone
    /\ db[At(1)].status = "pending"

\* C14: an exception raised while a customer is processed is caught by
\* "except Exception": unless the operator interrupts, the run does not
\* end there; once the iteration has ended the customer is marked error,
\* the last message is "Error: " followed by the first 100 characters of
\* the exception's text, and the loop is at the next customer.
C14_ExceptionRecorded ==
    \A j \in 1..Len(pending) :
        hist[At(j)].raised =>
            /\ idx = j => (pc = "handler" \/ intrAt = j)
            /\ Completed(j) =>
                   /\ db[At(j)].status = "error"
                   /\ db[At(j)].last_message.src = hist[At(j)].error.text.src
                   /\ db[At(j)].last_message.pre = 7
                   /\ db[At(j)].last_message.len =
                          7 + (IF hist[At(j)].error.text.len < 100
                               THEN hist[At(j)].error.text.len ELSE 100)

\* the run has entered the customer loop and has ended
LoopEnded == idx >= 1 /\ pc \in {"returned", "aborted"}

\* C15: a run with no block indicator and no operator interrupt ends only
\* after every customer of the pending list has been processed, whatever
\* failures the earlier customers had.
C15_EveryCustomerProcessed ==
    (LoopEnded /\ ~blocked /\ blockAt = 0 /\ intrAt = 0) => idx = Len(pending) + 1

\* C16: a run that has entered the customer loop ends through the summary
\* and the statements after it, however the loop ended.
C16_SummaryAlways == LoopEnded => pc = "returned"

\* SeleniumProvider.is_connected
is_connected == connected /\ client

\* C17: before the customer loop is entered no message has been sent and
\* no customer row or history has changed; the loop runs only with the
\* login confirmed; a run that returns without entering the loop has
\* closed the session.
C17_LoginBeforeLoop ==
    /\ idx = 0 =>
           /\ outbox = <<>>
           /\ \A c \in Customers :
                  /\ db[c].status = "pending"
                  /\ db[c].sentiment = ""
                  /\ db[c].last_message = EmptyText
                  /\ hist[c] = NewHist
    /\ (idx >= 1 /\ pc \notin {"returned", "aborted"}) => is_connected
    /\ (idx = 0 /\ pc = "returned") => (~client /\ ~connected /\ browser = 0)

\* the login was confirmed and a message has been sent
C17_Witness == idx = 1 /\ is_connected /\ Len(outbox) = 1 /\ pc = "wait_base"

\* the step calls open_chat: a send of the try body, not an interrupt
CallsOpenChat ==
    /\ client
    /\ pc = "followup" \/ (pc = "body" /\ ~pending[idx].has_review)
    /\ pc' # "summary"

\* C20: whenever open_chat is called while a block indicator is in the
\* page, on the first call or a later one, it raises WhatsAppBlockedError
\* and the chat surface is not touched: no chat is opened and nothing is
\* typed or sent.
C20_BlockCheckedEveryCall ==
    [][(blocked /\ CallsOpenChat) =>
          /\ pc' = "handler"
          /\ exc' = BlockedError
          /\ UNCHANGED <<openChat, dom, outbox>>]_vars

\* C18: close is idempotent: after any close, a first one, one that follows
\* another close, or one on a provider that never connected, no error has
\* reached the caller, no client is held and is_connected answers False.
C18_CloseIdempotent ==
    pc \in {"p_close", "p_close2"} => (exc = NoError /\ ~client /\ ~is_connected)

\* C19: wait_for_reply always terminates: whatever the conversation holds
\* and whatever the scans do, the call leaves its loop, with a reply or
\* with none once the timeout has elapsed.
C19_WaitTerminates == <>(pc \notin {"wait_base", "wait_poll"})

\* the call returned none after the timeout, and the conversation never
\* held a message from the customer
C19_Witness ==
    /\ pc \in {"delay", "handler"}
    /\ hist[1].waitRes = "none"
    /\ \A i \in 1..Len(dom) : dom[i].author = "self"

\* a provider that sent a message has been closed twice in a row
C18_Witness == pc = "p_close2" /\ Len(outbox) > 0 /\ browser < MaxSessions

\* C21: transient automation misses never raise past the client: after a
\* send_message, read_latest_incoming or wait_for_reply call, the only
\* exception the caller can hold is WhatsAppBlockedError, raised by the
\* open_chat of a send while a block indicator is in the page, and a call
\* whose selector strategies all missed, or whose elements went stale,
\* returned False or None.
C21_MissesNeverRaise ==
    pc \in {"p_send", "p_read", "p_wait"} =>
        /\ output.raised => (pc = "p_send" /\ exc = BlockedError /\ blocked)
        /\ ~output.raised => exc = NoError
        /\ (input.miss /\ ~output.raised) => output.value \in {FalseV, NoneV}

\* a read whose strategies all missed returned None although the open
\* conversation holds a message of the customer
C21_Witness ==
    /\ pc = "p_read"
    /\ input.miss
    /\ output = Returned(NoneV)
    /\ \E i \in 1..Len(dom) : dom[i].author = "cust"

\* C22: the Cloud-API stub fails loudly: a send_message or wait_for_reply
\* call on APIProvider ends with an error raised to the caller, never with
\* a plain False or None, and send_message never returns True.
C22_StubFailsLoudly ==
    pc \in {"a_send", "a_wait"} => (output.raised /\ exc # NoError)

\* C23: one writer per customer per run: while the run goes through its
\* pending list, a customer's row changes only in a step of the run's own
\* iteration for that customer.
C23_SingleWriter ==
    [][(idx >= 1 /\ pc \in TryPcs \cup {"handler"}) =>
          \A c \in Customers :
              db'[c] # db[c] => (c = pending[idx].id /\ <<pc, idx>>' # <<pc, idx>>)]_vars

SentimentLabels == {"Positive", "Neutral", "Negative"}

\* C24: classify always ends with one of the labels Positive, Neutral and
\* Negative and raises nothing, for every text, with or without a key, and
\* for every outcome of the remote call.
C24_AlwaysLabel ==
    pc = "k_done" => (~output.raised /\ output.value \in SentimentLabels)

\* a negative text was classified after the request gave a payload of the
\* wrong shape
C24_Witness ==
    /\ pc = "k_done"
    /\ output.called
    /\ ~input.remote.ok
    /\ input.remote.why = "bad_shape"
    /\ output.value = "Negative"

\* C25: with a key, when the request fails (network failure, timeout, HTTP
\* error, malformed response), classify returns the label of the heuristic
\* for the same text; without a key no request is made and the result is
\* the heuristic's label too.
C25_FailureFallsThrough ==
    pc = "k_done" =>
        /\ (input.key /\ ~input.remote.ok) =>
               output.value = classify_with_heuristics(input.text)
        /\ ~input.key =>
               (~output.called /\ output.value = classify_with_heuristics(input.text))

\* the request timed out for a text the heuristic finds negative
C25_Witness ==
    /\ pc = "k_done"
    /\ input.key
    /\ input.remote.why = "timeout"
    /\ input.text = <<"b","a","d">>
    /\ output.value = "Negative"

\* C26: a text of fewer than 3 characters after trimming, the empty text
\* included, is Neutral and no request is made, with or without a key; a
\* text of exactly 3 characters is not cut short: with a key the request is
\* made, without one the heuristic decides.
C26_ShortIsNeutral ==
    pc = "k_done" =>
        /\ Len(Strip(input.text)) < 3 => (output.value = "Neutral" /\ ~output.called)
        /\ Len(Strip(input.text)) = 3 =>
               /\ output.called <=> input.key
               /\ ~input.key => output.value = classify_with_heuristics(input.text)

\* two characters between spaces, with a key: Neutral without a request
C26_Witness ==
    /\ pc = "k_done"
    /\ input.text = <<" ","o","k"," "," ">>
    /\ input.key
    /\ input.remote.content = <<"p","o","s","i","t","i","v","e">>
    /\ output.value = "Neutral"
    /\ ~output.called

\* the label a first word stands for, whatever its case
LabelOfWord(w) ==
    IF Lower(w) = Lower(S_Positive) THEN "Positive"
    ELSE IF Lower(w) = Lower(S_Negative) THEN "Negative"
    ELSE "Neutral"

\* C27: when the request succeeds with content that is not empty, the
\* label is the first word of the content, whatever its case, and a first
\* word that is none of the three labels gives Neutral, not the heuristic's
\* label.
C27_FirstWordLabel ==
    (pc = "k_done" /\ output.called /\ input.remote.ok /\ Strip(input.remote.content) # <<>>) =>
        output.value = LabelOfWord(FirstWord(Strip(input.remote.content)))

\* the payload starts with a word that is no label, for a text the
\* heuristic finds positive: Neutral
C27_Witness ==
    /\ pc = "k_done"
    /\ output.called
    /\ input.remote.content = <<"S","u","r","e","!"," ","P","o","s","i","t","i","v","e">>
    /\ input.text = T_loved
    /\ output.value = "Neutral"

\* some keyword of the list is a substring of the text, whatever the case
Mentions(text, keywords) ==
    \E k \in 1..Len(keywords) : Contains(Lower(text), Lower(keywords[k]))

\* C28: the heuristic matches keywords as case-insensitive substrings: a
\* positive keyword and no negative one gives Positive, a negative one and
\* no positive one gives Negative, both or neither gives Neutral.
C28_Heuristic ==
    (pc = "k_done" /\ Len(Strip(input.text)) >= 3 /\ (~input.key \/ ~input.remote.ok)) =>
        LET pos == Mentions(input.text, POSITIVE_KEYWORDS)
            neg == Mentions(input.text, NEGATIVE_KEYWORDS)
        IN  output.value = IF pos /\ ~neg THEN "Positive"
                           ELSE IF neg /\ ~pos THEN "Negative"
                           ELSE "Neutral"

\* an upper-case keyword is matched
C28_Witness ==
    /\ pc = "k_done"
    /\ ~input.key
    /\ input.text = <<"G","R","E","A","T">>
    /\ output.value = "Positive"

\* C29: for every phone string the normalized phone is made of digits
\* only and starts with neither + nor 00.
C29_PhoneNormalized ==
    pc = "n_done" =>
        /\ \A i \in 1..Len(output.value) : output.value[i] \in Digits
        /\ ~StartsWith(output.value, <<"+">>)
        /\ ~StartsWith(output.value, <<"0","0">>)

\* C30: the list _get_message_elements returns holds elements of one
\* strategy only, also when an earlier strategy failed partway through,
\* and it is empty only when the three strategies appended nothing.
C30_OneStrategy ==
    pc = "g_done" =>
        /\ \E k \in 1..3 :
             \A i \in 1..Len(output.value) :
               \E j \in 1..Len(StrategyElements(input.d, k)) :
                 output.value[i] = StrategyElements(input.d, k)[j]
        /\ output.value = <<>> =>
             \A k \in 1..3 : Appended(input.d, input.fault, k) = <<>>

\* C31: when run_campaign has read and classified the latest incoming text
\* for a customer that has a review, the conversation open on the chat
\* surface is that customer's.
C31_ReadOwnConversation ==
    (pc = "followup" /\ cur.has_review) => openChat = cur.id

\* C32: every text that send_message(phone, text) reported as sent was
\* submitted into the conversation with phone.
C32_SentToOwnConversation ==
    \A k \in 1..Len(outbox) : outbox[k].chat = outbox[k].to

\* C33: wait_for_reply never returns a message that was in the conversation
\* before the wait began: with nobody writing during the wait it returns
\* no reply, whatever the baseline scan and the polls' scans did.
C33_NoOldMessage ==
    ~(pc = "followup" /\ hist[1].waitRes = "reply" /\ found.el \in 1..Len(dom))

\* the open conversation shows a customer's message with text below the
\* review request: a reply that arrived after the request was submitted
ReplyVisible ==
    \E i, j \in 1..Len(dom) :
        /\ j < i
        /\ dom[j].author = "self"
        /\ dom[i].author = "cust"
        /\ Strip(dom[i].text) # <<>>

\* C34: a reply that arrived after the request was submitted, before the
\* time to wait ran out, and stays visible with text is returned by
\* wait_for_reply: the wait does not end with none (the customer recorded
\* as no_reply) while it is visible, also when it arrived before the
\* baseline was taken.
C34_ReplyReturned ==
    (pc \in {"delay", "handler"} /\ hist[cur.id].waitRes = "none") => ~ReplyVisible

\* the places in the scan of the elements a poll may return: incoming, not
\* in the baseline, with text, the text not the one to ignore
NewReplies ==
    LET scan == get_message_elements(input.d, input.fault)
    IN  { k \in 1..Len(scan) :
            /\ scan[k].inc
            /\ scan[k].id \notin input.base
            /\ extract_text_from_message(input.d, scan[k], input.stale) \notin {NoneV, <<>>}
            /\ extract_text_from_message(input.d, scan[k], input.stale) # input.ignore_text }

\* the elements of the scan come from one strategy
OneStrategy ==
    LET scan == get_message_elements(input.d, input.fault)
    IN  \A i, j \in 1..Len(scan) : scan[i].id[1] = scan[j].id[1]

\* C35: a poll returns the text of the last element in scan order that is
\* incoming, not in the baseline, with non-empty text other than the text
\* to ignore, and nothing when there is none; in a scan served by one
\* strategy that element is the newest such message.
C35_NewestReply ==
    pc = "w_done" =>
        LET scan == get_message_elements(input.d, input.fault)
        IN  IF NewReplies = {} THEN output.value = <<NoneV, NoElem>>
            ELSE LET k == CHOOSE k \in NewReplies : \A j \in NewReplies : j <= k
                 IN  /\ output.value =
                            <<extract_text_from_message(input.d, scan[k], input.stale), scan[k]>>
                     /\ OneStrategy => \A j \in NewReplies : scan[j].el <= scan[k].el

\* two new messages with text were found in a scan of one strategy, with a
\* text to ignore given; the later one was returned
C35_Witness ==
    /\ pc = "w_done"
    /\ Cardinality(NewReplies) >= 2
    /\ OneStrategy
    /\ output.value[2].el = Len(input.d)
    /\ input.ignore_text # NoneV

\* the chunks put one after the other
RECURSIVE Joined(_)
Joined(chunks) == IF chunks = <<>> THEN <<>> ELSE Head(chunks) \o Joined(Tail(chunks))

\* C36: the client's send_message returns True only if the whole text was
\* typed, in chunks of at most 50 characters that put together in order
\* give the text, and ENTER was sent; when the input is not found nothing
\* is typed; when a call fails, ENTER is not sent and False is returned.
C36_TypedThenSubmitted ==
    pc = "s_done" =>
        LET r == output.value
        IN  /\ r.ok =>
                /\ Joined(r.typed) = input.text
                /\ \A k \in 1..Len(r.typed) : Len(r.typed[k]) \in 1..50
                /\ r.entered
            /\ ~input.box => (r.typed = <<>> /\ ~r.entered /\ ~r.ok)
            /\ ~r.ok => ~r.entered
            /\ Joined(r.typed) # input.text => ~r.entered

\* a text of three chunks was sent; or two of its chunks were typed when
\* the third failed
C36_Witness ==
    /\ pc = "s_done"
    /\ Len(Chunks(input.text)) = 3
    /\ Len(input.text) % 50 # 0
    /\ \/ output.value.ok
       \/ Len(output.value.typed) = 2 /\ ~output.value.ok

\* the iteration of position j had a text classified and ended without the
\* follow-up sent: send_message returned false or raised
FollowupFailed(j) ==
    /\ Completed(j) \/ (idx = j /\ pc = "delay")
    /\ hist[At(j)].label # ""
    /\ ~hist[At(j)].followOk

\* C37: the text was read and classified and the send of the follow-up
\* failed: the customer's status is error, not done, and the label is not
\* stored (the sentiment column stays as it was); when nothing raised, the
\* last message is the reason "Failed to send message" or "Failed to send
\* response".
C37_FollowupFails ==
    \A j \in 1..Len(pending) :
        FollowupFailed(j) =>
            /\ db[At(j)].status = "error"
            /\ db[At(j)].sentiment = ""
            /\ db[At(j)].has_review = pending[j].has_review
            /\ ~hist[At(j)].raised =>
                   db[At(j)].last_message = Slice(ErrorPrefixed(FailedFollowup(pending[j])), DbTrunc)

\* a reply was classified and the response could not be sent; a text read
\* for a reviewed customer was classified and the message could not be sent
C37_Witness ==
    \E j1, j2 \in 1..Len(pending) :
        /\ FollowupFailed(j1) /\ ~pending[j1].has_review /\ ~hist[At(j1)].raised
        /\ FollowupFailed(j2) /\ pending[j2].has_review /\ ~hist[At(j2)].raised
        /\ hist[At(j1)].label = "Positive"

\* C38: strategy 1 takes a message as incoming exactly when it was not
\* written by the account itself, whatever the sender's name.
C38_IncomingIffNotSelf ==
    pc = "d_done" => output.value = Bool(input.author # "self")

\* C39: a provider holds at most one live browser session: after any
\* sequence of connect, confirm_login and close calls, the sessions alive
\* are the current client's one, or none when no client is held.
C39_OneSession == browser = (IF client THEN 1 ELSE 0)

\* C40: is_connected answers True only for a client whose login was
\* confirmed: it is False right after a connect that made a new client,
\* and after close.
C40_ConnectedMeansConfirmed ==
    [][/\ browser' = browser + 1 => ~is_connected'
       /\ pc' \in {"p_close", "p_close2"} => ~is_connected']_vars

====
